---- MODULE Spec2Model ----
(***************************************************************************)
(* Model of src/components/video-editor/timeline/TimelineEditor.tsx: the   *)
(* timeline scale selector, the region normalization effect, the overlap   *)
(* detector, the add-zoom placement and the axis marker generator.         *)
(*                                                                         *)
(* Units.  Every time is an integer number of milliseconds.  A value in    *)
(* seconds (videoDuration, durationSeconds, intervalSeconds, gridSeconds)  *)
(* is held as the integer 1000 * seconds, so Math.round(x * 1000) of such  *)
(* a value is the integer itself, and Math.round of an integer time is     *)
(* that integer.  The viewport (range, clampedRange) is an input of the    *)
(* marker generator only; formatTimeLabel's strings are not represented.   *)
(***************************************************************************)
EXTENDS Integers, Sequences, FiniteSets, TLC

VARIABLES
  videoDuration,    \* prop videoDuration (seconds, held as 1000 * seconds)
  zoomRegions,      \* prop zoomRegions: the region store's array
  nextId,           \* the region store's id counter (ids are never reused)
  phase,            \* "render" | "effect" | "idle": where React is
  timelineItems,    \* useMemo value handed to Row/Item at the last render
  renderedTotalMs,  \* videoDurationMs handed to Timeline at the last render
  added,            \* outcome of the last handleAddZoom call
  passes,           \* effect passes that issued a change since the last event
  args,             \* inputs of the pure function being applied
  ret               \* its result(s), <<>> before it ran

vars == <<videoDuration, zoomRegions, nextId, phase, timelineItems,
          renderedTotalMs, added, passes, args, ret>>

sysVars == <<videoDuration, zoomRegions, nextId, phase, timelineItems,
             renderedTotalMs, added, passes>>

(***************************************************************************)
(* Bounds of the model.                                                    *)
(***************************************************************************)
MaxIds == 2            \* regions the store ever creates in one run
MaxPlaceRegions == 2   \* regions in a placement input
MaxConvRegions == 2    \* regions in a convergence run
MaxNormTotal == 4      \* largest totalMs of the small normalizer inputs
MaxOverlapTime == 4    \* largest small time of the overlap inputs
MaxMarkerTime == 6     \* largest time of the marker inputs
MaxInterval == 3       \* largest intervalMs of the marker inputs
ScaleSlack == 2        \* durations this close to each scale threshold

Max(a, b) == IF a >= b THEN a ELSE b
Min(a, b) == IF a <= b THEN a ELSE b

\* excludeId left undefined (region ids start at 1).
NoId == 0
NoAdd == [kind |-> "none"]

(***************************************************************************)
(* Scale selector.                                                         *)
(***************************************************************************)
TARGET_MARKER_COUNT == 12

SCALE_CANDIDATES ==
  << [intervalSeconds |-> 250,     gridSeconds |-> 50],
     [intervalSeconds |-> 500,     gridSeconds |-> 100],
     [intervalSeconds |-> 1000,    gridSeconds |-> 250],
     [intervalSeconds |-> 2000,    gridSeconds |-> 500],
     [intervalSeconds |-> 5000,    gridSeconds |-> 1000],
     [intervalSeconds |-> 10000,   gridSeconds |-> 2000],
     [intervalSeconds |-> 15000,   gridSeconds |-> 3000],
     [intervalSeconds |-> 30000,   gridSeconds |-> 5000],
     [intervalSeconds |-> 60000,   gridSeconds |-> 10000],
     [intervalSeconds |-> 120000,  gridSeconds |-> 20000],
     [intervalSeconds |-> 300000,  gridSeconds |-> 30000],
     [intervalSeconds |-> 600000,  gridSeconds |-> 60000],
     [intervalSeconds |-> 900000,  gridSeconds |-> 120000],
     [intervalSeconds |-> 1800000, gridSeconds |-> 180000],
     [intervalSeconds |-> 3600000, gridSeconds |-> 300000] >>

\* The predicate of SCALE_CANDIDATES.find: markers = duration / interval, and
\* duration / interval <= 12 iff duration <= 12 * interval (interval > 0).
MarkersWithinTargetStrict(durationSeconds, candidate) ==
  \/ durationSeconds <= 0
  \/ durationSeconds < TARGET_MARKER_COUNT * candidate.intervalSeconds

MarkersWithinTarget(durationSeconds, candidate) ==
  \/ durationSeconds <= 0
  \/ durationSeconds <= TARGET_MARKER_COUNT * candidate.intervalSeconds

\* Array.prototype.find: the first element satisfying the predicate, from
\* index i on; 0 stands for undefined.
RECURSIVE FindCandidate(_, _)
FindCandidate(durationSeconds, i) ==
  IF i > Len(SCALE_CANDIDATES) THEN 0
  ELSE IF MarkersWithinTarget(durationSeconds, SCALE_CANDIDATES[i]) THEN i
  ELSE FindCandidate(durationSeconds, i + 1)

Max3(a, b, c) == Max(a, Max(b, c))

calculateTimelineScale(durationSeconds) ==
  LET totalMs == Max(0, durationSeconds)
      found == FindCandidate(durationSeconds, 1)
      selectedIndex == IF found = 0 THEN Len(SCALE_CANDIDATES) ELSE found
      selectedCandidate == SCALE_CANDIDATES[selectedIndex]
      intervalMs == selectedCandidate.intervalSeconds
      gridMs == selectedCandidate.gridSeconds
      minItemDurationMs == 1
  IN [ intervalMs |-> intervalMs,
       gridMs |-> gridMs,
       minItemDurationMs |-> minItemDurationMs,
       defaultItemDurationMs |->
         Min(Max(minItemDurationMs, intervalMs * 2),
             IF totalMs > 0 THEN totalMs ELSE intervalMs * 2),
       minVisibleRangeMs |->
         IF totalMs > 0
         THEN Min(Max3(intervalMs * 3, minItemDurationMs * 6, 1000), totalMs)
         ELSE Max3(intervalMs * 3, minItemDurationMs * 6, 1000) ]

(***************************************************************************)
(* Derived values of TimelineEditor.                                       *)
(***************************************************************************)
TotalMsOf(duration) == Max(0, duration)

SafeMinDurationMsOf(duration) ==
  LET scale == calculateTimelineScale(duration)
  IN IF TotalMsOf(duration) > 0
     THEN Min(scale.minItemDurationMs, TotalMsOf(duration))
     ELSE scale.minItemDurationMs

totalMs == TotalMsOf(videoDuration)
safeMinDurationMs == SafeMinDurationMsOf(videoDuration)

(***************************************************************************)
(* Region normalizer: the body of the forEach of the normalization effect. *)
(***************************************************************************)
NormalizedStartNoFit(clampedStart, total, minDuration) == Max(0, clampedStart)

NormalizedStart(clampedStart, total, minDuration) ==
  Max(0, Min(clampedStart, total - minDuration))

NormalizeRegion(region, total, minDuration) ==
  LET clampedStart == Max(0, Min(region.startMs, total))
      minEnd == clampedStart + minDuration
      clampedEnd == Min(total, Max(minEnd, region.endMs))
      normalizedStart == NormalizedStart(clampedStart, total, minDuration)
      normalizedEnd == Max(minEnd, Min(clampedEnd, total))
  IN [start |-> normalizedStart, end |-> normalizedEnd]

NeedsChange(region, total, minDuration) ==
  LET n == NormalizeRegion(region, total, minDuration)
  IN n.start # region.startMs \/ n.end # region.endMs

(***************************************************************************)
(* Region store (owned by the parent component): the three callbacks.      *)
(***************************************************************************)
StoreSpanChange(regions, id, span) ==
  [i \in 1..Len(regions) |->
     IF regions[i].id = id
     THEN [id |-> id, startMs |-> span.start, endMs |-> span.end]
     ELSE regions[i]]

StoreAdd(regions, id, span) ==
  Append(regions, [id |-> id, startMs |-> span.start, endMs |-> span.end])

StoreDelete(regions, id) == SelectSeq(regions, LAMBDA r : r.id # id)

\* One run of the effect's forEach: every region of the snapshot that needs
\* it gets one onZoomSpanChange request, and the store applies each.
ApplyNormalization(regions, total, minDuration) ==
  [i \in 1..Len(regions) |->
     IF NeedsChange(regions[i], total, minDuration)
     THEN StoreSpanChange(regions, regions[i].id,
                          NormalizeRegion(regions[i], total, minDuration))[i]
     ELSE regions[i]]

(***************************************************************************)
(* Overlap / gap detector.                                                 *)
(***************************************************************************)
InSnapGapWide(gap) == gap > 0 /\ gap <= 3

InSnapGap(gap) == gap > 0 /\ gap <= 2

RegionConflicts(region, newSpan, excludeId) ==
  IF region.id = excludeId THEN FALSE
  ELSE LET gapBefore == newSpan.start - region.endMs
           gapAfter == region.startMs - newSpan.end
       IN IF InSnapGap(gapBefore) THEN TRUE
          ELSE IF InSnapGap(gapAfter) THEN TRUE
          ELSE ~(newSpan.end <= region.startMs \/ newSpan.start >= region.endMs)

hasOverlap(regions, newSpan, excludeId) ==
  \E i \in 1..Len(regions) : RegionConflicts(regions[i], newSpan, excludeId)

(***************************************************************************)
(* Placement finder: handleAddZoom.                                        *)
(***************************************************************************)
DEFAULT_ZOOM_MS == 3000

\* [...zoomRegions].sort((a, b) => a.startMs - b.startMs): a stable sort.
InsertByStartMs(sorted, r) ==
  LET k == Cardinality({i \in 1..Len(sorted) : sorted[i].startMs <= r.startMs})
  IN SubSeq(sorted, 1, k) \o <<r>> \o SubSeq(sorted, k + 1, Len(sorted))

RECURSIVE SortPrefix(_, _)
SortPrefix(regions, n) ==
  IF n = 0 THEN <<>>
  ELSE InsertByStartMs(SortPrefix(regions, n - 1), regions[n])

SortByStartMs(regions) == SortPrefix(regions, Len(regions))

FitsBeforeNoDuration(startPos, defaultDuration, region) ==
  startPos <= region.startMs

FitsBefore(startPos, defaultDuration, region) ==
  startPos + defaultDuration <= region.startMs

RECURSIVE ScanRegions(_, _, _, _)
ScanRegions(sorted, i, startPos, defaultDuration) ==
  IF i > Len(sorted) THEN startPos
  ELSE IF FitsBefore(startPos, defaultDuration, sorted[i]) THEN startPos
  ELSE ScanRegions(sorted, i + 1, Max(startPos, sorted[i].endMs),
                   defaultDuration)

NoSpaceInclusive(startPos, defaultDuration, total) ==
  startPos + defaultDuration >= total

NoSpace(startPos, defaultDuration, total) ==
  startPos + defaultDuration > total

\* The outcome of handleAddZoom on (videoDuration, zoomRegions):
\*   "ignored" - an early return, nothing emitted, no toast
\*   "nospace" - toast.error("No space available"), nothing emitted
\*   "span"    - onZoomAdded(span)
handleAddZoom(duration, regions) ==
  LET total == TotalMsOf(duration)
      defaultDuration == Min(Max(DEFAULT_ZOOM_MS, SafeMinDurationMsOf(duration)),
                             total)
      startPos == ScanRegions(SortByStartMs(regions), 1, 0, defaultDuration)
  IN IF duration = 0 \/ total = 0 THEN [kind |-> "ignored"]
     ELSE IF defaultDuration <= 0 THEN [kind |-> "ignored"]
     ELSE IF NoSpace(startPos, defaultDuration, total)
     THEN [kind |-> "nospace", startPos |-> startPos,
           defaultDuration |-> defaultDuration]
     ELSE [kind |-> "span",
           span |-> [start |-> startPos, end |-> startPos + defaultDuration],
           defaultDuration |-> defaultDuration]

(***************************************************************************)
(* timelineItems: the region set as the Row/Item children consume it.      *)
(***************************************************************************)
BuildTimelineItems(regions) ==
  LET sorted == SortByStartMs(regions)
  IN [i \in 1..Len(sorted) |->
        [id |-> sorted[i].id,
         span |-> [start |-> sorted[i].startMs, end |-> sorted[i].endMs],
         label |-> i]]

(***************************************************************************)
(* The editor as a state machine.  React renders, then runs the effects    *)
(* whose dependencies changed; user and parent events arrive when it is    *)
(* idle.                                                                   *)
(***************************************************************************)
\* Durations the parent loads (1000 * seconds).
DurationChoices == {0, 3000, 5000, 10000}

\* End points a drag of the timeline wrapper can produce.
ResizePoints == {0, 2000, 3000, 3001, 3003, 5000, 8000}

ResizeSpans ==
  {[start |-> a, end |-> b] : a \in ResizePoints, b \in ResizePoints}

RegionIds == 1..MaxIds

HasRegion(id) == \E i \in 1..Len(zoomRegions) : zoomRegions[i].id = id

RegionOf(id) ==
  zoomRegions[CHOOSE i \in 1..Len(zoomRegions) : zoomRegions[i].id = id]

SysInit ==
  /\ videoDuration = 0
  /\ zoomRegions = <<>>
  /\ nextId = 1
  /\ phase = "render"
  /\ timelineItems = <<>>
  /\ renderedTotalMs = 0
  /\ added = NoAdd
  /\ passes = 0

Init ==
  /\ SysInit
  /\ args = <<>>
  /\ ret = <<>>

\* The parent passes a new videoDuration.
SetDuration ==
  /\ phase = "idle"
  /\ \E d \in DurationChoices \ {videoDuration} : videoDuration' = d
  /\ phase' = "render"
  /\ added' = NoAdd
  /\ passes' = 0
  /\ UNCHANGED <<zoomRegions, nextId, timelineItems, renderedTotalMs, args, ret>>

\* The "Add Zoom" button: handleAddZoom, and the store's onZoomAdded.
AddZoom ==
  /\ phase = "idle"
  /\ nextId <= MaxIds
  /\ LET out == handleAddZoom(videoDuration, zoomRegions)
     IN /\ added' = out @@ [before |-> zoomRegions]
        /\ IF out.kind = "span"
           THEN /\ zoomRegions' = StoreAdd(zoomRegions, nextId, out.span)
                /\ nextId' = nextId + 1
                /\ phase' = "render"
           ELSE UNCHANGED <<zoomRegions, nextId, phase>>
  /\ passes' = 0
  /\ UNCHANGED <<videoDuration, timelineItems, renderedTotalMs, args, ret>>

\* A resize or move in the timeline wrapper: the wrapper asks hasOverlap
\* (excluding the dragged item) and on acceptance calls onItemSpanChange.
ItemSpanChange ==
  /\ phase = "idle"
  /\ totalMs > 0
  /\ \E id \in RegionIds, span \in ResizeSpans :
       /\ HasRegion(id)
       /\ span.start < span.end
       /\ span.end <= totalMs
       /\ [start |-> RegionOf(id).startMs, end |-> RegionOf(id).endMs] # span
       /\ ~hasOverlap(zoomRegions, span, id)
       /\ zoomRegions' = StoreSpanChange(zoomRegions, id, span)
  /\ phase' = "render"
  /\ added' = NoAdd
  /\ passes' = 0
  /\ UNCHANGED <<videoDuration, nextId, timelineItems, renderedTotalMs, args, ret>>

\* The external delete request: onZoomDelete.
ZoomDelete ==
  /\ phase = "idle"
  /\ \E id \in RegionIds :
       /\ HasRegion(id)
       /\ zoomRegions' = StoreDelete(zoomRegions, id)
  /\ phase' = "render"
  /\ added' = NoAdd
  /\ passes' = 0
  /\ UNCHANGED <<videoDuration, nextId, timelineItems, renderedTotalMs, args, ret>>

\* A render of TimelineEditor: timelineItems is recomputed from zoomRegions
\* and handed, with totalMs, to Timeline and its Row/Item children (with
\* videoDuration = 0 the placeholder is returned and nothing is handed on).
Render ==
  /\ phase = "render"
  /\ timelineItems' = BuildTimelineItems(zoomRegions)
  /\ renderedTotalMs' = totalMs
  /\ phase' = "effect"
  /\ added' = NoAdd
  /\ UNCHANGED <<videoDuration, zoomRegions, nextId, passes, args, ret>>

\* The normalization effect, run after the render.
NormalizationEffect ==
  /\ phase = "effect"
  /\ IF totalMs = 0 \/ safeMinDurationMs <= 0
     THEN /\ phase' = "idle"
          /\ UNCHANGED <<zoomRegions, passes>>
     ELSE IF \E i \in 1..Len(zoomRegions) :
                NeedsChange(zoomRegions[i], totalMs, safeMinDurationMs)
     THEN /\ zoomRegions' =
               ApplyNormalization(zoomRegions, totalMs, safeMinDurationMs)
          /\ passes' = passes + 1
          /\ phase' = "render"
     ELSE /\ phase' = "idle"
          /\ UNCHANGED <<zoomRegions, passes>>
  /\ added' = NoAdd
  /\ UNCHANGED <<videoDuration, nextId, timelineItems, renderedTotalMs, args, ret>>

Next ==
  \/ SetDuration
  \/ AddZoom
  \/ ItemSpanChange
  \/ ZoomDelete
  \/ Render
  \/ NormalizationEffect

Spec == Init /\ [][Next]_vars

\* ---- Convergence of the normalization effect ----------------------------
\* The editor mounted with any region array, followed by duration changes;
\* React runs a pending render and a pending effect (weak fairness).
ConvPoints == {0, 3001, 5000, 8000}

ConvSpans ==
  {[startMs |-> p[1], endMs |-> p[2]] :
     p \in {q \in ConvPoints \X ConvPoints : q[1] < q[2]}}

ConvArrays ==
  UNION {{[i \in 1..k |-> [id |-> i, startMs |-> f[i].startMs,
                           endMs |-> f[i].endMs]] : f \in [1..k -> ConvSpans]}
         : k \in 0..MaxConvRegions}

ConvInit ==
  /\ videoDuration \in DurationChoices
  /\ zoomRegions \in ConvArrays
  /\ nextId = Len(zoomRegions) + 1
  /\ phase = "render"
  /\ timelineItems = <<>>
  /\ renderedTotalMs = 0
  /\ added = NoAdd
  /\ passes = 0
  /\ args = <<>>
  /\ ret = <<>>

ConvNext == SetDuration \/ Render \/ NormalizationEffect

SpecConverge ==
  /\ ConvInit
  /\ [][ConvNext]_vars
  /\ WF_vars(Render)
  /\ WF_vars(NormalizationEffect)

(***************************************************************************)
(* Axis marker generator: the useMemo of TimelineAxis.  The result is the  *)
(* ascending sequence of marker times; each marker's label is              *)
(* formatTimeLabel(time, intervalMs), a function of the time alone.        *)
(***************************************************************************)
InVisibleWindowNoEnd(time, visibleStart, visibleEnd) == time >= visibleStart

InVisibleWindow(time, visibleStart, visibleEnd) ==
  time >= visibleStart /\ time <= visibleEnd

\* Array.from(set).sort((a, b) => a - b)
RECURSIVE SortAscending(_)
SortAscending(S) ==
  IF S = {} THEN <<>>
  ELSE LET m == CHOOSE x \in S : \A y \in S : x <= y
       IN <<m>> \o SortAscending(S \ {m})

CeilDiv(a, b) == (a + b - 1) \div b

markers(intervalMs, range, videoDurationMs) ==
  IF intervalMs <= 0 THEN <<>>
  ELSE
    LET maxTime == IF videoDurationMs > 0 THEN videoDurationMs ELSE range.end
        visibleStart == Max(0, Min(range.start, maxTime))
        visibleEnd == Min(range.end, maxTime)
        firstMarker == CeilDiv(visibleStart, intervalMs) * intervalMs
        steps == IF maxTime < firstMarker THEN {}
                 ELSE 0..((maxTime - firstMarker) \div intervalMs)
        loopTimes == {firstMarker + k * intervalMs : k \in steps}
        inWindow == {t \in loopTimes :
                       InVisibleWindow(t, visibleStart, visibleEnd)}
        withStart == IF visibleStart <= maxTime
                     THEN inWindow \cup {visibleStart} ELSE inWindow
        markerTimes == IF videoDurationMs > 0
                       THEN withStart \cup {videoDurationMs} ELSE withStart
    IN SortAscending({t \in markerTimes : t <= maxTime})

(***************************************************************************)
(* Specifications that apply one pure function to inputs drawn by Init.    *)
(***************************************************************************)
SpanOf(a, b) == [start |-> a, end |-> b]
RegionSpan(a, b) == [startMs |-> a, endMs |-> b]

\* Arrays of at most n regions with spans from S; a region's id is its index.
RegionArrays(S, n) ==
  UNION {{[i \in 1..k |-> [id |-> i, startMs |-> f[i].startMs,
                           endMs |-> f[i].endMs]] : f \in [1..k -> S]}
         : k \in 0..n}

\* ---- Region normalizer -------------------------------------------------
NormInputs ==
  {[region |-> RegionSpan(a, b), totalMs |-> t, minItemDurationMs |-> m] :
     a \in -1..(MaxNormTotal + 2), b \in -1..(MaxNormTotal + 2),
     t \in 1..MaxNormTotal, m \in 1..MaxNormTotal}

NormArgs ==
  {x \in NormInputs : x.minItemDurationMs <= x.totalMs}
  \cup {[region |-> RegionSpan(5000, 8000), totalMs |-> 3000,
         minItemDurationMs |-> 1]}

NormInit == SysInit /\ args \in NormArgs /\ ret = <<>>

NormalizeOnce ==
  /\ ret = <<>>
  /\ ret' = <<NormalizeRegion(args.region, args.totalMs,
                              args.minItemDurationMs)>>
  /\ UNCHANGED <<sysVars, args>>

NormalizeAgain ==
  /\ Len(ret) = 1
  /\ ret' = Append(ret, NormalizeRegion(RegionSpan(ret[1].start, ret[1].end),
                                        args.totalMs, args.minItemDurationMs))
  /\ UNCHANGED <<sysVars, args>>

NormNext == NormalizeOnce \/ NormalizeAgain

SpecNorm == NormInit /\ [][NormNext]_vars

\* ---- Overlap / gap detector --------------------------------------------
OverlapPoints == (0..MaxOverlapTime) \cup {1000, 1005, 2000}

OverlapSpans ==
  {RegionSpan(p[1], p[2]) : p \in {q \in OverlapPoints \X OverlapPoints : q[1] < q[2]}}

OverlapArgs ==
  {[newSpan |-> SpanOf(c.startMs, c.endMs), zoomRegions |-> rs,
    excludeId |-> x] :
     c \in OverlapSpans, rs \in RegionArrays(OverlapSpans, 2),
     x \in {NoId, 1, 2}}

OverlapInit == SysInit /\ args \in OverlapArgs /\ ret = <<>>

CheckOverlap ==
  /\ ret = <<>>
  /\ ret' = <<hasOverlap(args.zoomRegions, args.newSpan, args.excludeId)>>
  /\ UNCHANGED <<sysVars, args>>

OverlapNext == CheckOverlap

SpecOverlap == OverlapInit /\ [][OverlapNext]_vars

\* ---- Scale selector ----------------------------------------------------
ScaleDurations ==
  {TARGET_MARKER_COUNT * SCALE_CANDIDATES[k].intervalSeconds + x :
     k \in 1..Len(SCALE_CANDIDATES), x \in (-ScaleSlack)..ScaleSlack}
  \cup {-1000, 0, 1, 10000, 3600000, 50000000}

ScaleInit ==
  /\ SysInit
  /\ args \in {[durationSeconds |-> d] : d \in ScaleDurations}
  /\ ret = <<>>

CalculateScale ==
  /\ ret = <<>>
  /\ ret' = <<calculateTimelineScale(args.durationSeconds)>>
  /\ UNCHANGED <<sysVars, args>>

ScaleNext == CalculateScale

SpecScale == ScaleInit /\ [][ScaleNext]_vars

\* ---- Marker generator --------------------------------------------------
MarkerArgs ==
  {[intervalMs |-> i, range |-> SpanOf(a, b), videoDurationMs |-> v] :
     i \in 0..MaxInterval, a \in 0..MaxMarkerTime,
     b \in 1..MaxMarkerTime, v \in -1..MaxMarkerTime}

MarkerInit ==
  /\ SysInit
  /\ args \in {x \in MarkerArgs : x.range.start < x.range.end}
  /\ ret = <<>>

GenerateMarkers ==
  /\ ret = <<>>
  /\ ret' = <<markers(args.intervalMs, args.range, args.videoDurationMs)>>
  /\ UNCHANGED <<sysVars, args>>

MarkerNext == GenerateMarkers

SpecMarkers == MarkerInit /\ [][MarkerNext]_vars

\* ---- Placement finder --------------------------------------------------
PlacePoints == {0, 2000, 2001, 3000, 6000, 7000}

PlaceSpans ==
  {RegionSpan(p[1], p[2]) : p \in {q \in PlacePoints \X PlacePoints : q[1] < q[2]}}

PlaceDurations == {2000, 3000, 5000, 8000}

PlaceInit ==
  /\ SysInit
  /\ args \in {[videoDuration |-> d, zoomRegions |-> rs] :
                 d \in PlaceDurations,
                 rs \in RegionArrays(PlaceSpans, MaxPlaceRegions)}
  /\ ret = <<>>

PlaceZoom ==
  /\ ret = <<>>
  /\ ret' = <<handleAddZoom(args.videoDuration, args.zoomRegions)>>
  /\ UNCHANGED <<sysVars, args>>

PlaceNext == PlaceZoom

SpecPlace == PlaceInit /\ [][PlaceNext]_vars

(***************************************************************************)
(* Properties.                                                             *)
(***************************************************************************)
Geometric(span, region) ==
  ~(span.end <= region.startMs \/ span.start >= region.endMs)

AddedSpanPassesDetector ==
  added.kind = "span" => ~hasOverlap(added.before, added.span, NoId)

\* C3: one pass of the normalizer yields a valid region: 0 <= start,
\* end <= totalMs and end - start >= minItemDurationMs, for every totalMs > 0,
\* every 1 <= minItemDurationMs <= totalMs and every input region.
NormalizedRegionValid ==
  Len(ret) >= 1 =>
    /\ 0 <= ret[1].start
    /\ ret[1].end <= args.totalMs
    /\ ret[1].end - ret[1].start >= args.minItemDurationMs

\* C4: the normalizer is idempotent: a second pass over the output of the
\* first returns it unchanged.
NormalizationIdempotent ==
  Len(ret) = 2 => ret[2] = ret[1]

\* C5: hasOverlap(candidate, excludeId) is true exactly when a region other
\* than excludeId strictly overlaps the candidate, or ends 1 or 2 ms before
\* its start, or starts 1 or 2 ms after its end; touching (gap 0) and gaps
\* of 3 ms or more are accepted.
HasOverlapExact ==
  ret # <<>> =>
    (ret[1] <=>
       \E i \in 1..Len(args.zoomRegions) :
         LET r == args.zoomRegions[i]
         IN /\ r.id # args.excludeId
            /\ \/ (args.newSpan.start < r.endMs /\ args.newSpan.end > r.startMs)
               \/ args.newSpan.start - r.endMs \in {1, 2}
               \/ r.startMs - args.newSpan.end \in {1, 2})

\* Candidate {1000,1005} between {0,1000} and {1005,2000} is accepted.
TouchingCandidateAccepted ==
  /\ args.newSpan = SpanOf(1000, 1005)
  /\ args.zoomRegions = << [id |-> 1, startMs |-> 0, endMs |-> 1000],
                           [id |-> 2, startMs |-> 1005, endMs |-> 2000] >>
  /\ args.excludeId = NoId
  /\ ret = <<FALSE>>

\* C6: for duration > 0 the scale is the smallest table interval with
\* duration / interval <= 12, or the last entry (3600 s / 300 s) when none
\* qualifies; for duration <= 0 it is the first entry (250 ms / 50 ms).  A
\* non-fallback choice has ceil(duration / interval) <= 12; 10 s gives
\* 1000 / 250 and 3600 s gives intervalMs 300000.
ScaleIsSmallestFit ==
  ret # <<>> =>
    LET d == args.durationSeconds
        n == Len(SCALE_CANDIDATES)
        fits == {k \in 1..n : d <= 12 * SCALE_CANDIDATES[k].intervalSeconds}
        pick == [intervalMs |-> ret[1].intervalMs, gridMs |-> ret[1].gridMs]
        entry(k) == [intervalMs |-> SCALE_CANDIDATES[k].intervalSeconds,
                     gridMs |-> SCALE_CANDIDATES[k].gridSeconds]
    IN /\ d <= 0 => pick = [intervalMs |-> 250, gridMs |-> 50]
       /\ (d > 0 /\ fits # {}) =>
            /\ \E k \in fits :
                 /\ pick = entry(k)
                 /\ \A j \in fits : entry(k).intervalMs <= entry(j).intervalMs
            /\ (d + pick.intervalMs - 1) \div pick.intervalMs <= 12
       /\ (d > 0 /\ fits = {}) =>
            pick = [intervalMs |-> 3600000, gridMs |-> 300000]
       /\ d = 10000 => pick = [intervalMs |-> 1000, gridMs |-> 250]
       /\ d = 3600000 => pick.intervalMs = 300000

\* A one-hour video: 3600 / 300 = 12 markers, exactly on the target.
ScaleOfOneHour ==
  /\ ret # <<>>
  /\ args.durationSeconds = 3600000
  /\ ret[1].intervalMs = 300000
  /\ ret[1].gridMs = 30000

MarkerMaxTime == IF args.videoDurationMs > 0 THEN args.videoDurationMs
                 ELSE args.range.end
MarkerVisibleStart == Max(0, Min(args.range.start, MarkerMaxTime))
MarkerVisibleEnd == Min(args.range.end, MarkerMaxTime)

\* C7 as stated: the markers are strictly ascending and every marker time
\* lies in [visibleStart, min(range.end, maxTime)], also when the viewport
\* is zoomed in (range.end < videoDurationMs).
MarkersInsideVisibleWindow ==
  (ret # <<>> /\ args.intervalMs > 0) =>
    /\ \A i \in 1..(Len(ret[1]) - 1) : ret[1][i] < ret[1][i + 1]
    /\ \A i \in 1..Len(ret[1]) :
         MarkerVisibleStart <= ret[1][i] /\ ret[1][i] <= MarkerVisibleEnd

\* C7 amended: for integer-millisecond inputs with 0 <= range.start <
\* range.end, the markers are strictly ascending, every marker time lies in
\* [visibleStart, maxTime], and every marker time other than the forced
\* video end (videoDurationMs, when positive) lies in
\* [visibleStart, min(range.end, maxTime)]; the video end is always among
\* the markers when videoDurationMs > 0.
MarkersInsideWindowOrVideoEnd ==
  (ret # <<>> /\ args.intervalMs > 0) =>
    /\ \A i \in 1..(Len(ret[1]) - 1) : ret[1][i] < ret[1][i + 1]
    /\ \A i \in 1..Len(ret[1]) :
         /\ MarkerVisibleStart <= ret[1][i]
         /\ ret[1][i] <= MarkerMaxTime
         /\ \/ ret[1][i] <= MarkerVisibleEnd
            \/ (args.videoDurationMs > 0 /\ ret[1][i] = args.videoDurationMs)
    /\ args.videoDurationMs > 0 =>
         \E i \in 1..Len(ret[1]) : ret[1][i] = args.videoDurationMs

\* A zoomed-in viewport whose markers include interval ticks, the window
\* start and the video end beyond the window.
MarkersZoomedIn ==
  /\ ret # <<>>
  /\ args.intervalMs = 2
  /\ args.range = SpanOf(1, 4)
  /\ args.videoDurationMs = 6
  /\ ret[1] = <<1, 2, 4, 6>>

\* C8: after a duration change no render hands the children a region that
\* was not re-validated against the new totalMs: no rendered region ends
\* beyond the totalMs of that render.
RenderReadsValidatedRegions ==
  renderedTotalMs > 0 =>
    \A i \in 1..Len(timelineItems) :
      timelineItems[i].span.end <= renderedTotalMs

PlaceTotal == TotalMsOf(args.videoDuration)
PlaceDefault == Min(Max(3000, 1), PlaceTotal)

PlaceFits(s) ==
  /\ s + PlaceDefault <= PlaceTotal
  /\ \A i \in 1..Len(args.zoomRegions) :
       ~Geometric(SpanOf(s, s + PlaceDefault), args.zoomRegions[i])

\* C9: with D = min(max(3000, minItemDurationMs), totalMs), handleAddZoom
\* emits {s, s + D} for the smallest s >= 0 such that [s, s + D] overlaps no
\* region and s + D <= totalMs, and reports "No space available", emitting
\* nothing, exactly when no such s exists (totalMs > 0: a video is loaded).
\* For totalMs = 5000 and regions {0,2000},{2001,3000} the 1 ms gap is
\* skipped and the candidate start becomes 3000.
PlacementIsFirstFit ==
  (ret # <<>> /\ PlaceTotal > 0) =>
    /\ ret[1].kind \in {"span", "nospace"}
    /\ ret[1].kind = "span" =>
         /\ ret[1].span.end = ret[1].span.start + PlaceDefault
         /\ ret[1].span.start >= 0
         /\ PlaceFits(ret[1].span.start)
         /\ \A s \in 0..(ret[1].span.start - 1) : ~PlaceFits(s)
    /\ ret[1].kind = "nospace" <=>
         ~(\E s \in 0..PlaceTotal : PlaceFits(s))
    /\ ( /\ PlaceTotal = 5000
         /\ Len(args.zoomRegions) = 2
         /\ RegionSpan(args.zoomRegions[1].startMs, args.zoomRegions[1].endMs)
              = RegionSpan(0, 2000)
         /\ RegionSpan(args.zoomRegions[2].startMs, args.zoomRegions[2].endMs)
              = RegionSpan(2001, 3000) )
       => (ret[1].kind = "nospace" /\ ret[1].startPos = 3000)

\* A slot found between two regions given out of start order.
PlacedInGap ==
  /\ ret # <<>>
  /\ PlaceTotal = 8000
  /\ Len(args.zoomRegions) = 2
  /\ args.zoomRegions[1].startMs = 6000
  /\ args.zoomRegions[1].endMs = 7000
  /\ args.zoomRegions[2].startMs = 0
  /\ args.zoomRegions[2].endMs = 2000
  /\ ret[1].kind = "span"
  /\ ret[1].span = SpanOf(2000, 5000)

AllRegionsValid ==
  \A i \in 1..Len(zoomRegions) :
    /\ 0 <= zoomRegions[i].startMs
    /\ zoomRegions[i].startMs < zoomRegions[i].endMs
    /\ zoomRegions[i].endMs <= totalMs

\* C10: with a store that applies every onZoomSpanChange and an effect that
\* re-runs on every change, a pending render or effect always leads to a
\* quiescent state (the effect issues nothing more); in a quiescent state
\* with totalMs > 0 every region has 0 <= startMs < endMs <= totalMs; and at
\* most two effect passes issue changes after one event.
NormalizationConverges ==
  /\ [](passes <= 2)
  /\ []((phase = "idle" /\ totalMs > 0) => AllRegionsValid)
  /\ ((phase # "idle") ~> (phase = "idle"))

\* Quiescence reached by two correcting passes after a trim of the video.
ConvergedAfterTwoPasses ==
  /\ phase = "idle"
  /\ passes = 2
  /\ totalMs = 3000
  /\ \E i \in 1..Len(zoomRegions) :
       zoomRegions[i].startMs = 2999 /\ zoomRegions[i].endMs = 3000

====
